---- MODULE Spec2Model ----
(***************************************************************************)
(* The FBX dynamic property system (code/AssetLib/FBX/FBXProperties.cpp):  *)
(* the typed property decoder ReadTypedProperty, the PropertyTable         *)
(* constructor, PropertyTable::Get and                                     *)
(* PropertyTable::GetUnparsedProperties.                                   *)
(*                                                                         *)
(* C++ indices are 0-based, TLA+ sequences 1-based: tok[i] of the source   *)
(* is tok[i + 1] here.                                                     *)
(***************************************************************************)
EXTENDS Integers, Sequences, FiniteSets, TLC

VARIABLES
    children,       \* per table: the child elements of the node's scope
    constructed,    \* the tables whose constructor has run
    templateProps,  \* per table: the template table, or NoTable
    lazyProps,      \* per table: name -> element (LazyPropertyMap)
    props,          \* per table: name -> parsed property or nullptr (PropertyMap)
    warnings,       \* per table: the DOMWarning calls of the constructor, in order
    decodes,        \* per table and name: ReadTypedProperty calls made by Get
    lastOp,         \* the last completed call and what it returned
    arg,            \* the element handed to the decoder (decoder runs only)
    thr,            \* per thread: the position inside Get (concurrent runs only)
    raced,          \* an unsynchronised conflicting access to one map happened
    stores          \* per table and name: assignments to props[name] made by Get

vars == <<children, constructed, templateProps, lazyProps, props, warnings,
          decodes, lastOp, arg, thr, raced, stores>>

----------------------------------------------------------------------------
(* Bounds *)

MaxTokens == 9      \* longest token list handed to the decoder
MaxChildren == 3    \* longest child list handed to the constructor
MaxRecords == 2     \* "P" records of a whole document (sequential runs)
MaxDecodes == 2     \* decoder calls by Get per table and name

Tables == {"T1", "T2", "T3"}
NoTable == "none"
Names == {"a", "b"}
Threads == {1, 2}

EmptyMap == [x \in {} |-> 0]

----------------------------------------------------------------------------
(* Tokens and elements.  A token has its text, its origin and ONE location *)
(* (Token keeps line and offset in a union).                               *)

Token(s, bin, loc) == [s |-> s, bin |-> bin, loc |-> loc]

ParseTokenAsString(t) == t.s
ParseTokenAsInt(t) == t.s
ParseTokenAsID(t) == t.s
ParseTokenAsInt64(t) == t.s
ParseTokenAsFloat(t) == t.s

Nullptr == [kind |-> "nullptr"]
New(v) == [kind |-> "value", val |-> v]
DeadlyImportError(s, where, loc) ==
    [kind |-> "throw", tag |-> s, where |-> where, loc |-> loc]

\* checkTokenCount: the error it throws, or Nullptr when it returns normally.
checkTokenCount_le(tok, expectedCount) ==
    IF Len(tok) <= expectedCount
    THEN LET s == ParseTokenAsString(tok[2])
         IN  IF tok[2].bin
             THEN DeadlyImportError(s, "offset", tok[2].loc)
             ELSE DeadlyImportError(s, "line", tok[2].loc)
    ELSE Nullptr

checkTokenCount_line(tok, expectedCount) ==
    IF Len(tok) < expectedCount
    THEN LET s == ParseTokenAsString(tok[2])
         IN  DeadlyImportError(s, "line", tok[2].loc)
    ELSE Nullptr

checkTokenCount(tok, expectedCount) ==
    IF Len(tok) < expectedCount
    THEN LET s == ParseTokenAsString(tok[2])
         IN  IF tok[2].bin
             THEN DeadlyImportError(s, "offset", tok[2].loc)
             ELSE DeadlyImportError(s, "line", tok[2].loc)
    ELSE Nullptr

Throws(r) == r.kind = "throw"

\* lines 90-138 of ReadTypedProperty: the dispatch on the type tag cs.
ReadTagged(tok, cs) ==
    IF cs = "KString" THEN
        IF Throws(checkTokenCount(tok, 5)) THEN checkTokenCount(tok, 5)
        ELSE New(<<"String", ParseTokenAsString(tok[5])>>)
    ELSE IF cs = "bool" \/ cs = "Bool" THEN
        IF Throws(checkTokenCount(tok, 5)) THEN checkTokenCount(tok, 5)
        ELSE New(<<"Bool", ParseTokenAsInt(tok[5]) # 0>>)
    ELSE IF cs = "int" \/ cs = "Int" \/ cs = "enum" \/ cs = "Enum" \/ cs = "Integer" THEN
        IF Throws(checkTokenCount(tok, 5)) THEN checkTokenCount(tok, 5)
        ELSE New(<<"Int32", ParseTokenAsInt(tok[5])>>)
    ELSE IF cs = "ULongLong" THEN
        IF Throws(checkTokenCount(tok, 5)) THEN checkTokenCount(tok, 5)
        ELSE New(<<"UInt64", ParseTokenAsID(tok[5])>>)
    ELSE IF cs = "KTime" THEN
        IF Throws(checkTokenCount(tok, 5)) THEN checkTokenCount(tok, 5)
        ELSE New(<<"Int64", ParseTokenAsInt64(tok[5])>>)
    ELSE IF cs = "Vector3D" \/ cs = "ColorRGB" \/ cs = "Vector" \/ cs = "Color"
            \/ cs = "Lcl Translation" \/ cs = "Lcl Rotation" \/ cs = "Lcl Scaling" THEN
        IF Throws(checkTokenCount(tok, 7)) THEN checkTokenCount(tok, 7)
        ELSE New(<<"Vector3", ParseTokenAsFloat(tok[5]), ParseTokenAsFloat(tok[6]),
                   ParseTokenAsFloat(tok[7])>>)
    ELSE IF cs = "double" \/ cs = "Number" \/ cs = "float" \/ cs = "Float"
            \/ cs = "FieldOfView" \/ cs = "UnitScaleFactor" THEN
        IF Throws(checkTokenCount(tok, 5)) THEN checkTokenCount(tok, 5)
        ELSE New(<<"Float32", ParseTokenAsFloat(tok[5])>>)
    ELSE IF cs = "ColorAndAlpha" THEN
        IF Throws(checkTokenCount(tok, 8)) THEN checkTokenCount(tok, 8)
        ELSE New(<<"Color4", ParseTokenAsFloat(tok[5]), ParseTokenAsFloat(tok[6]),
                   ParseTokenAsFloat(tok[7]), ParseTokenAsFloat(tok[8])>>)
    ELSE Nullptr

ReadTypedProperty(element) ==
    IF Len(element.tok) < 2 THEN Nullptr
    ELSE ReadTagged(element.tok, ParseTokenAsString(element.tok[2]))

----------------------------------------------------------------------------
(* Elements of the bounded documents.  Element(key, name, tag, n, bin, d)  *)
(* is the record  key: name, tag, "", "A", d, 10+d, 20+d, ...  cut to its  *)
(* first n tokens, every token of origin bin, located at 100+d.            *)

Payload(name, tag, d) ==
    <<name, tag, "", "A">> \o [i \in 1..(MaxTokens - 4) |-> 10 * (i - 1) + d]

Element(key, name, tag, n, bin, d) ==
    [key |-> key,
     tok |-> [i \in 1..n |-> Token(Payload(name, tag, d)[i], bin, 100 + d)]]

----------------------------------------------------------------------------
(* The constructor *)

\* peek into an element and check if it contains a FBX property, if so
\* return its name.
PeekPropertyName_le(element) ==
    IF Len(element.tok) <= 4 THEN "" ELSE ParseTokenAsString(element.tok[1])

PeekPropertyName(element) ==
    IF Len(element.tok) < 4 THEN "" ELSE ParseTokenAsString(element.tok[1])

\* A diagnostic: the message and the element it is about.
DOMWarning(message, i) == [msg |-> message, elem |-> i]
DuplicateName == "duplicate property name, will hide previous value: "

\* One iteration of the constructor's loop over scope.Elements(): acc is
\* [lazy |-> lazyProps so far, warn |-> DOMWarning calls so far]; the element
\* pointer v.second is the position i of the element in the scope.
ScanElement_overwrite(acc, v, i) ==
    IF v.key # "P"
    THEN [acc EXCEPT !.warn = Append(@, DOMWarning("expected only P elements in property table", i))]
    ELSE LET name == PeekPropertyName(v) IN
         IF name = ""
         THEN [acc EXCEPT !.warn = Append(@, DOMWarning("could not read property name", i))]
         ELSE IF name \in DOMAIN acc.lazy
         THEN [lazy |-> (name :> i) @@ acc.lazy,
               warn |-> Append(acc.warn, DOMWarning(DuplicateName, i))]
         ELSE [acc EXCEPT !.lazy = (name :> i) @@ @]

ScanElement(acc, v, i) ==
    IF v.key # "P"
    THEN [acc EXCEPT !.warn = Append(@, DOMWarning("expected only P elements in property table", i))]
    ELSE LET name == PeekPropertyName(v) IN
         IF name = ""
         THEN [acc EXCEPT !.warn = Append(@, DOMWarning("could not read property name", i))]
         ELSE IF name \in DOMAIN acc.lazy
         THEN [acc EXCEPT !.warn = Append(@, DOMWarning(DuplicateName, i))]
         ELSE [acc EXCEPT !.lazy = (name :> i) @@ @]

RECURSIVE ScanElements(_, _, _)
ScanElements(elems, i, acc) ==
    IF i > Len(elems) THEN acc
    ELSE ScanElements(elems, i + 1, ScanElement(acc, elems[i], i))

\* PropertyTable::PropertyTable over the elements of the node's scope, in the
\* order scope.Elements() yields them.
PropertyTable(elems) == ScanElements(elems, 1, [lazy |-> EmptyMap, warn |-> <<>>])

----------------------------------------------------------------------------
(* Get *)

\* The object a successful decode leaves on the heap: new TypedProperty<T>(v)
\* is a fresh object, told apart by the table, the name and the number of the
\* decode that made it; nullptr is nullptr.
Alloc(r, t, name) ==
    IF r.kind = "value"
    THEN [kind |-> "value", val |-> r.val, at |-> <<t, name, decodes[t][name] + 1>>]
    ELSE r

\* What a pointer points to, without the object's identity.
Deref(p) == IF p.kind = "value" THEN New(p.val) ELSE p

RawRecord(t, name) == children[t][lazyProps[t][name]]

\* PropertyTable::Get, as a function of the state: what it returns (ret, a
\* pointer, nullptr or the exception that leaves it), the tables visited
\* (path), whether the decoder ran and whether props[name] of the last table
\* visited was assigned.  The right operand of  props[name] = ReadTyped...
\* is evaluated before the left one (C++17): a throwing decode leaves props
\* untouched.
RECURSIVE GetRec(_, _, _)

\* line 201 with r the outcome of the decoder: the exception leaves Get, or
\* the pointer is assigned to props[name] and returned.
Decoded_swallow(t, name, p, r) ==
    IF Throws(r)
    THEN [ret |-> Nullptr, path |-> p, decoded |-> TRUE, stored |-> FALSE]
    ELSE [ret |-> Alloc(r, t, name), path |-> p, decoded |-> TRUE, stored |-> TRUE]

Decoded(t, name, p, r) ==
    IF Throws(r)
    THEN [ret |-> r, path |-> p, decoded |-> TRUE, stored |-> FALSE]
    ELSE [ret |-> Alloc(r, t, name), path |-> p, decoded |-> TRUE, stored |-> TRUE]

GetRec_onelevel(t, name, path) ==
    LET p == Append(path, t) IN
    IF name \in DOMAIN props[t]
    THEN [ret |-> props[t][name], path |-> p, decoded |-> FALSE, stored |-> FALSE]
    ELSE IF name \in DOMAIN lazyProps[t]
    THEN Decoded(t, name, p, ReadTypedProperty(RawRecord(t, name)))
    ELSE IF templateProps[t] # NoTable /\ Len(path) = 0
    THEN GetRec(templateProps[t], name, p)
    ELSE [ret |-> Nullptr, path |-> p, decoded |-> FALSE, stored |-> FALSE]

GetRec_nofind(t, name, path) ==
    LET p == Append(path, t) IN
    IF name \in DOMAIN lazyProps[t]
    THEN Decoded(t, name, p, ReadTypedProperty(RawRecord(t, name)))
    ELSE IF templateProps[t] # NoTable
    THEN GetRec(templateProps[t], name, p)
    ELSE [ret |-> Nullptr, path |-> p, decoded |-> FALSE, stored |-> FALSE]

GetRec_fallthrough(t, name, path) ==
    LET p == Append(path, t) IN
    IF name \in DOMAIN props[t] /\ props[t][name] # Nullptr
    THEN [ret |-> props[t][name], path |-> p, decoded |-> FALSE, stored |-> FALSE]
    ELSE IF name \in DOMAIN lazyProps[t]
            /\ ReadTypedProperty(RawRecord(t, name)) # Nullptr
    THEN Decoded(t, name, p, ReadTypedProperty(RawRecord(t, name)))
    ELSE IF templateProps[t] # NoTable
    THEN GetRec(templateProps[t], name, p)
    ELSE [ret |-> Nullptr, path |-> p, decoded |-> FALSE, stored |-> FALSE]

GetRec(t, name, path) ==
    LET p == Append(path, t) IN
    IF name \in DOMAIN props[t]
    THEN [ret |-> props[t][name], path |-> p, decoded |-> FALSE, stored |-> FALSE]
    ELSE IF name \in DOMAIN lazyProps[t]
    THEN Decoded(t, name, p, ReadTypedProperty(RawRecord(t, name)))
    ELSE IF templateProps[t] # NoTable
    THEN GetRec(templateProps[t], name, p)
    ELSE [ret |-> Nullptr, path |-> p, decoded |-> FALSE, stored |-> FALSE]

Last(s) == s[Len(s)]

Idle == [pc |-> "idle"]

\* A whole call  t.Get(name)  made while no other call is running.
Get_local(t, name) ==
    /\ t \in constructed
    /\ \A th \in Threads : thr[th] = Idle
    /\ LET g == GetRec(t, name, <<>>)
           o == Last(g.path)
       IN  /\ g.decoded => decodes[o][name] < MaxDecodes
           /\ props' = IF g.stored
                       THEN [props EXCEPT ![t] = (name :> g.ret) @@ @]
                       ELSE props
           /\ decodes' = IF g.decoded
                         THEN [decodes EXCEPT ![o][name] = @ + 1]
                         ELSE decodes
           /\ stores' = IF g.stored
                        THEN [stores EXCEPT ![o][name] = @ + 1]
                        ELSE stores
           /\ lastOp' = [op |-> "Get", t |-> t, name |-> name, ret |-> g.ret,
                         path |-> g.path, decoded |-> g.decoded]
    /\ UNCHANGED <<children, constructed, templateProps, lazyProps, warnings,
                   arg, thr, raced>>

Get_leftfirst(t, name) ==
    /\ t \in constructed
    /\ \A th \in Threads : thr[th] = Idle
    /\ LET g == GetRec(t, name, <<>>)
           o == Last(g.path)
       IN  /\ g.decoded => decodes[o][name] < MaxDecodes
           /\ props' = IF g.stored
                       THEN [props EXCEPT ![o] = (name :> g.ret) @@ @]
                       ELSE IF g.decoded
                       THEN [props EXCEPT ![o] = (name :> Nullptr) @@ @]
                       ELSE props
           /\ decodes' = IF g.decoded
                         THEN [decodes EXCEPT ![o][name] = @ + 1]
                         ELSE decodes
           /\ stores' = IF g.stored
                        THEN [stores EXCEPT ![o][name] = @ + 1]
                        ELSE stores
           /\ lastOp' = [op |-> "Get", t |-> t, name |-> name, ret |-> g.ret,
                         path |-> g.path, decoded |-> g.decoded]
    /\ UNCHANGED <<children, constructed, templateProps, lazyProps, warnings,
                   arg, thr, raced>>

Get_consume(t, name) ==
    /\ t \in constructed
    /\ \A th \in Threads : thr[th] = Idle
    /\ LET g == GetRec(t, name, <<>>)
           o == Last(g.path)
       IN  /\ g.decoded => decodes[o][name] < MaxDecodes
           /\ props' = IF g.stored
                       THEN [props EXCEPT ![o] = (name :> g.ret) @@ @]
                       ELSE props
           /\ lazyProps' = IF g.stored
                           THEN [lazyProps EXCEPT ![o] =
                                    [n \in DOMAIN @ \ {name} |-> @[n]]]
                           ELSE lazyProps
           /\ decodes' = IF g.decoded
                         THEN [decodes EXCEPT ![o][name] = @ + 1]
                         ELSE decodes
           /\ stores' = IF g.stored
                        THEN [stores EXCEPT ![o][name] = @ + 1]
                        ELSE stores
           /\ lastOp' = [op |-> "Get", t |-> t, name |-> name, ret |-> g.ret,
                         path |-> g.path, decoded |-> g.decoded]
    /\ UNCHANGED <<children, constructed, templateProps, warnings,
                   arg, thr, raced>>

Get(t, name) ==
    /\ t \in constructed
    /\ \A th \in Threads : thr[th] = Idle
    /\ LET g == GetRec(t, name, <<>>)
           o == Last(g.path)
       IN  /\ g.decoded => decodes[o][name] < MaxDecodes
           /\ props' = IF g.stored
                       THEN [props EXCEPT ![o] = (name :> g.ret) @@ @]
                       ELSE props
           /\ decodes' = IF g.decoded
                         THEN [decodes EXCEPT ![o][name] = @ + 1]
                         ELSE decodes
           /\ stores' = IF g.stored
                        THEN [stores EXCEPT ![o][name] = @ + 1]
                        ELSE stores
           /\ lastOp' = [op |-> "Get", t |-> t, name |-> name, ret |-> g.ret,
                         path |-> g.path, decoded |-> g.decoded]
    /\ UNCHANGED <<children, constructed, templateProps, lazyProps, warnings,
                   arg, thr, raced>>

----------------------------------------------------------------------------
(* GetUnparsedProperties *)

\* std::map iterates lazyProps in key order.
NameOrder == <<"a", "b">>

\* The loop of GetUnparsedProperties from position i of the key order on,
\* with result the mapping built so far: the finished mapping, or the
\* exception of the first decode that throws (the partial mapping is lost).
RECURSIVE Unparsed(_, _, _)

Unparsed_noskip(t, i, result) ==
    IF i > Len(NameOrder) THEN [kind |-> "map", map |-> result]
    ELSE LET name == NameOrder[i] IN
         IF name \notin DOMAIN lazyProps[t]
         THEN Unparsed(t, i + 1, result)
         ELSE LET prop == ReadTypedProperty(RawRecord(t, name)) IN
              IF Throws(prop) THEN prop
              ELSE IF prop = Nullptr THEN Unparsed(t, i + 1, result)
              ELSE Unparsed(t, i + 1, (name :> prop) @@ result)

Unparsed_swallow(t, i, result) ==
    IF i > Len(NameOrder) THEN [kind |-> "map", map |-> result]
    ELSE LET name == NameOrder[i] IN
         IF name \notin DOMAIN lazyProps[t]
         THEN Unparsed(t, i + 1, result)
         ELSE IF name \in DOMAIN props[t]
         THEN Unparsed(t, i + 1, result)
         ELSE LET prop == ReadTypedProperty(RawRecord(t, name)) IN
              IF Throws(prop) THEN Unparsed(t, i + 1, result)
              ELSE IF prop = Nullptr THEN Unparsed(t, i + 1, result)
              ELSE Unparsed(t, i + 1, (name :> prop) @@ result)

Unparsed(t, i, result) ==
    IF i > Len(NameOrder) THEN [kind |-> "map", map |-> result]
    ELSE LET name == NameOrder[i] IN
         IF name \notin DOMAIN lazyProps[t]
         THEN Unparsed(t, i + 1, result)
         ELSE IF name \in DOMAIN props[t]
         THEN Unparsed(t, i + 1, result)
         ELSE LET prop == ReadTypedProperty(RawRecord(t, name)) IN
              IF Throws(prop) THEN prop
              ELSE IF prop = Nullptr THEN Unparsed(t, i + 1, result)
              ELSE Unparsed(t, i + 1, (name :> prop) @@ result)

\* A mapping's entries written into a PropertyMap.
Caching(map, cache) ==
    [n \in DOMAIN map \cup DOMAIN cache |->
        IF n \in DOMAIN cache THEN cache[n] ELSE map[n]]

GetUnparsedProperties_caching(t) ==
    /\ t \in constructed
    /\ \A th \in Threads : thr[th] = Idle
    /\ LET r == Unparsed(t, 1, EmptyMap) IN
       /\ lastOp' = [op |-> "GetUnparsedProperties", t |-> t, ret |-> r]
       /\ props' = IF Throws(r) THEN props
                   ELSE [props EXCEPT ![t] = Caching(r.map, @)]
    /\ UNCHANGED <<children, constructed, templateProps, lazyProps, warnings,
                   decodes, arg, thr, raced, stores>>

GetUnparsedProperties(t) ==
    /\ t \in constructed
    /\ \A th \in Threads : thr[th] = Idle
    /\ lastOp' = [op |-> "GetUnparsedProperties", t |-> t,
                  ret |-> Unparsed(t, 1, EmptyMap)]
    /\ UNCHANGED <<children, constructed, templateProps, lazyProps, props,
                   warnings, decodes, arg, thr, raced, stores>>

----------------------------------------------------------------------------
(* Construction as an operation *)

NoOp == [op |-> "none"]
NoElement == [key |-> "", tok |-> <<>>]

\* new PropertyTable(element, templateProps): the template is a table that
\* exists already, or none.
Construct(t, elems, tp) ==
    /\ t \notin constructed
    /\ tp \in constructed \cup {NoTable}
    /\ constructed' = constructed \cup {t}
    /\ children' = [children EXCEPT ![t] = elems]
    /\ templateProps' = [templateProps EXCEPT ![t] = tp]
    /\ lazyProps' = [lazyProps EXCEPT ![t] = PropertyTable(elems).lazy]
    /\ warnings' = [warnings EXCEPT ![t] = PropertyTable(elems).warn]
    /\ lastOp' = [op |-> "PropertyTable", t |-> t]
    /\ UNCHANGED <<props, decodes, arg, thr, raced, stores>>

----------------------------------------------------------------------------
(* Sequential runs over a parsed document: the three tables are constructed *)
(* as a template chain, the document holds at most MaxRecords property      *)
(* records, each name at most once per node.                                *)

Absent == <<"", 0>>
\* a tag with its token count: decodes to a value, to nothing, throws
RecordKinds == {<<"bool", 5>>, <<"MyType", 4>>, <<"Vector3D", 6>>}

TableIdx(t) == CASE t = "T1" -> 1 [] t = "T2" -> 2 [] OTHER -> 3

Doc(t, f) ==
    LET present == SelectSeq(NameOrder, LAMBDA n : f[n] # Absent)
    IN  [i \in 1..Len(present) |->
            Element("P", present[i], f[present[i]][1], f[present[i]][2],
                    FALSE, TableIdx(t))]

Docs(t) == {Doc(t, f) : f \in [Names -> RecordKinds \cup {Absent}]}

\* The templates of the document's tables: T3 has none, T2 has T3, and T1
\* has T2 (a chain of three) or T3 (two tables sharing one template).
Templates ==
    {f \in [Tables -> Tables \cup {NoTable}] :
        /\ f["T3"] = NoTable
        /\ f["T2"] = "T3"
        /\ f["T1"] \in {"T2", "T3"}}

\* The chain of three: T1 has template T2, T2 has template T3.
Chain == [t \in Tables |-> CASE t = "T1" -> "T2" [] t = "T2" -> "T3" [] OTHER -> NoTable]

InitCommon ==
    /\ props = [t \in Tables |-> EmptyMap]
    /\ decodes = [t \in Tables |-> [n \in Names |-> 0]]
    /\ lastOp = NoOp
    /\ arg = NoElement
    /\ thr = [th \in Threads |-> Idle]
    /\ raced = FALSE
    /\ stores = [t \in Tables |-> [n \in Names |-> 0]]

Init ==
    /\ InitCommon
    /\ constructed = Tables
    /\ templateProps = Chain
    /\ \E d1 \in Docs("T1"), d2 \in Docs("T2"), d3 \in Docs("T3") :
         /\ Len(d1) + Len(d2) + Len(d3) <= MaxRecords
         /\ children = [t \in Tables |->
                          CASE t = "T1" -> d1 [] t = "T2" -> d2 [] OTHER -> d3]
    /\ lazyProps = [t \in Tables |-> PropertyTable(children[t]).lazy]
    /\ warnings = [t \in Tables |-> PropertyTable(children[t]).warn]

Next ==
    \/ \E t \in Tables, name \in Names : Get(t, name)
    \/ \E t \in Tables : GetUnparsedProperties(t)

Spec == Init /\ [][Next]_vars

----------------------------------------------------------------------------
(* Runs of the constructor: one table without template is built over any   *)
(* child list of at most MaxChildren elements, then read.                  *)

CtorElements ==
    {Element("P", "a", "bool", 5, FALSE, 1),
     Element("P", "a", "Vector3D", 6, FALSE, 2),
     Element("P", "a", "MyType", 4, FALSE, 3),
     Element("P", "b", "KString", 5, FALSE, 4),
     Element("P", "b", "bool", 3, FALSE, 5),
     Element("P", "", "bool", 5, FALSE, 6),
     Element("Model", "a", "bool", 5, FALSE, 7)}

ChildLists == UNION {[1..k -> CtorElements] : k \in 0..MaxChildren}

InitCtor ==
    /\ InitCommon
    /\ constructed = {}
    /\ children = [t \in Tables |-> <<>>]
    /\ templateProps = [t \in Tables |-> NoTable]
    /\ lazyProps = [t \in Tables |-> EmptyMap]
    /\ warnings = [t \in Tables |-> <<>>]

NextCtor ==
    \/ \E elems \in ChildLists : Construct("T3", elems, NoTable)
    \/ \E name \in Names : Get("T3", name)
    \/ GetUnparsedProperties("T3")

SpecCtor == InitCtor /\ [][NextCtor]_vars

----------------------------------------------------------------------------
(* Runs of the decoder: ReadTypedProperty applied to one element.          *)

KnownTags ==
    {"KString", "bool", "Bool", "int", "Int", "enum", "Enum", "Integer",
     "ULongLong", "KTime", "Vector3D", "ColorRGB", "Vector", "Color",
     "Lcl Translation", "Lcl Rotation", "Lcl Scaling", "double", "Number",
     "float", "Float", "FieldOfView", "UnitScaleFactor", "ColorAndAlpha"}

UnknownTags == {"MyType", "kstring", "Double", "Lcl  Rotation", "Vector4D", ""}

DecodeInputs ==
    {Element("P", "a", tag, n, bin, d) :
        tag \in KnownTags \cup UnknownTags, n \in 0..MaxTokens,
        bin \in BOOLEAN, d \in {0, 1}}

InitDecode ==
    /\ props = [t \in Tables |-> EmptyMap]
    /\ decodes = [t \in Tables |-> [n \in Names |-> 0]]
    /\ lastOp = NoOp
    /\ arg \in DecodeInputs
    /\ thr = [th \in Threads |-> Idle]
    /\ raced = FALSE
    /\ stores = [t \in Tables |-> [n \in Names |-> 0]]
    /\ constructed = {}
    /\ children = [t \in Tables |-> <<>>]
    /\ templateProps = [t \in Tables |-> NoTable]
    /\ lazyProps = [t \in Tables |-> EmptyMap]
    /\ warnings = [t \in Tables |-> <<>>]

Decode ==
    /\ lastOp = NoOp
    /\ arg # NoElement
    /\ lastOp' = [op |-> "ReadTypedProperty", ret |-> ReadTypedProperty(arg)]
    /\ UNCHANGED <<children, constructed, templateProps, lazyProps, props,
                   warnings, decodes, arg, thr, raced, stores>>

NextDecode == Decode

SpecDecode == InitDecode /\ [][NextDecode]_vars

----------------------------------------------------------------------------
(* Concurrent runs: each thread calls Get("a") on a table of its choice, and   *)
(* the statements of the calls interleave.  Nothing in Get synchronises, so    *)
(* two overlapping calls that reach the same table's props, one of them        *)
(* through operator[] or the assignment, are a data race: raced records it,    *)
(* and the racing assignment leaves either pointer in the map.                 *)

ConcNames == {"a"}

\* The tables whose props thread th has accessed, and has accessed through
\* operator[] or the assignment, in the call it is in.
RECURSIVE ChainTo(_, _)
ChainTo(t, cur) ==
    IF t = cur THEN {t} ELSE {t} \cup ChainTo(templateProps[t], cur)

Touched(th) ==
    IF thr[th].pc = "idle" THEN {}
    ELSE IF thr[th].pc = "find" THEN ChainTo(thr[th].t, thr[th].cur) \ {thr[th].cur}
    ELSE ChainTo(thr[th].t, thr[th].cur)

Wrote(th) ==
    IF thr[th].pc \in {"assign", "refind"} THEN {thr[th].cur} ELSE {}

\* Thread th accesses props of table c (write: through operator[] or the
\* assignment) while another thread's call conflicts with it.
Races(th, c, write) ==
    \E o \in Threads \ {th} :
        \/ c \in Wrote(o)
        \/ write /\ c \in Touched(o)

Call(th, t, name) ==
    /\ thr[th] = Idle
    /\ t \in constructed
    /\ thr' = [thr EXCEPT ![th] =
                  [pc |-> "find", t |-> t, name |-> name, cur |-> t, tmp |-> Nullptr]]
    /\ UNCHANGED <<children, constructed, templateProps, lazyProps, props,
                   warnings, decodes, lastOp, arg, raced, stores>>

Return(th, ret) ==
    /\ thr' = [thr EXCEPT ![th] = Idle]
    /\ lastOp' = [op |-> "Get", t |-> thr[th].t, name |-> thr[th].name,
                  ret |-> ret]

\* lines 196-199 and 207-213: props.find, lazyProps.find, the template
Find(th) ==
    /\ thr[th].pc = "find"
    /\ LET c == thr[th].cur
           name == thr[th].name
       IN  /\ raced' = (raced \/ Races(th, c, FALSE))
           /\ IF name \in DOMAIN props[c]
              THEN thr' = [thr EXCEPT ![th].pc = "return"] /\ UNCHANGED lastOp
              ELSE IF name \in DOMAIN lazyProps[c]
              THEN thr' = [thr EXCEPT ![th].pc = "decode"] /\ UNCHANGED lastOp
              ELSE IF templateProps[c] # NoTable
              THEN thr' = [thr EXCEPT ![th].cur = templateProps[c]] /\ UNCHANGED lastOp
              ELSE Return(th, Nullptr)
    /\ UNCHANGED <<children, constructed, templateProps, lazyProps, props,
                   warnings, decodes, arg, stores>>

\* line 201, right operand: ReadTypedProperty(*(*lit).second)
DecodeStep(th) ==
    /\ thr[th].pc = "decode"
    /\ LET c == thr[th].cur
           name == thr[th].name
           r == ReadTypedProperty(RawRecord(c, name))
       IN  /\ decodes[c][name] < MaxDecodes
           /\ decodes' = [decodes EXCEPT ![c][name] = @ + 1]
           /\ IF Throws(r)
              THEN Return(th, r)
              ELSE /\ thr' = [thr EXCEPT ![th].pc = "index",
                                         ![th].tmp = Alloc(r, c, name)]
                   /\ UNCHANGED lastOp
    /\ UNCHANGED <<children, constructed, templateProps, lazyProps, props,
                   warnings, arg, raced, stores>>

\* line 201, left operand: props[name] inserts a null entry when there is none
Index(th) ==
    /\ thr[th].pc = "index"
    /\ LET c == thr[th].cur
           name == thr[th].name
       IN  /\ raced' = (raced \/ Races(th, c, TRUE))
           /\ props' = IF name \in DOMAIN props[c] THEN props
                       ELSE [props EXCEPT ![c] = (name :> Nullptr) @@ @]
    /\ thr' = [thr EXCEPT ![th].pc = "assign"]
    /\ UNCHANGED <<children, constructed, templateProps, lazyProps, warnings,
                   decodes, lastOp, arg, stores>>

\* line 201, the assignment.  In a race either pointer may be the one left.
Assign_ifnull(th) ==
    /\ thr[th].pc = "assign"
    /\ LET c == thr[th].cur
           name == thr[th].name
       IN  /\ raced' = (raced \/ Races(th, c, TRUE))
           /\ IF props[c][name] = Nullptr
              THEN /\ props' = [props EXCEPT ![c][name] = thr[th].tmp]
                   /\ stores' = [stores EXCEPT ![c][name] = @ + 1]
              ELSE UNCHANGED <<props, stores>>
    /\ thr' = [thr EXCEPT ![th].pc = "refind"]
    /\ UNCHANGED <<children, constructed, templateProps, lazyProps, warnings,
                   decodes, lastOp, arg>>

Assign(th) ==
    /\ thr[th].pc = "assign"
    /\ LET c == thr[th].cur
           name == thr[th].name
       IN  /\ raced' = (raced \/ Races(th, c, TRUE))
           /\ stores' = [stores EXCEPT ![c][name] = @ + 1]
           /\ \E kept \in IF Races(th, c, TRUE)
                          THEN {thr[th].tmp, props[c][name]}
                          ELSE {thr[th].tmp} :
                 props' = [props EXCEPT ![c][name] = kept]
    /\ thr' = [thr EXCEPT ![th].pc = "refind"]
    /\ UNCHANGED <<children, constructed, templateProps, lazyProps, warnings,
                   decodes, lastOp, arg>>

\* lines 202-204 and 217: it = props.find(name); return (*it).second
Refind(th) ==
    /\ thr[th].pc \in {"refind", "return"}
    /\ raced' = (raced \/ Races(th, thr[th].cur, FALSE))
    /\ Return(th, props[thr[th].cur][thr[th].name])
    /\ UNCHANGED <<children, constructed, templateProps, lazyProps, props,
                   warnings, decodes, arg, stores>>

InitConc ==
    /\ InitCommon
    /\ constructed = Tables
    /\ templateProps \in Templates
    /\ \E d1 \in Docs("T1"), d2 \in Docs("T2"), d3 \in Docs("T3") :
         /\ \A d \in {d1, d2, d3} : \A i \in 1..Len(d) : d[i].tok[1].s \in ConcNames
         /\ children = [t \in Tables |->
                          CASE t = "T1" -> d1 [] t = "T2" -> d2 [] OTHER -> d3]
    /\ lazyProps = [t \in Tables |-> PropertyTable(children[t]).lazy]
    /\ warnings = [t \in Tables |-> PropertyTable(children[t]).warn]

NextConc ==
    \/ \E th \in Threads, t \in Tables, name \in ConcNames : Call(th, t, name)
    \/ \E th \in Threads : Find(th)
    \/ \E th \in Threads : DecodeStep(th)
    \/ \E th \in Threads : Index(th)
    \/ \E th \in Threads : Assign(th)
    \/ \E th \in Threads : Refind(th)

SpecConc == InitConc /\ [][NextConc]_vars

----------------------------------------------------------------------------
(* Claims *)

\* The nearest table of t's template chain whose lazyProps holds name.
RECURSIVE NearestOwner(_, _)
NearestOwner(t, name) ==
    IF name \in DOMAIN lazyProps[t] THEN t
    ELSE IF templateProps[t] = NoTable THEN NoTable
    ELSE NearestOwner(templateProps[t], name)

\* What decoding the nearest owner's record gives; nullptr without owner.
DecodedResult(t, name) ==
    IF NearestOwner(t, name) = NoTable THEN Nullptr
    ELSE ReadTypedProperty(RawRecord(NearestOwner(t, name), name))

IsGet == lastOp.op = "Get"
IsUnparsed == lastOp.op = "GetUnparsedProperties"

\* C1 as stated: Get runs the decoder on a name's record at most once,
\* whatever the first decode gave (a value, nothing, a decode error).
C1_DecodedAtMostOnce ==
    \A t \in Tables, n \in Names : decodes[t][n] <= 1

\* C1 amended: Get runs the decoder at most once on a record whose decode
\* returns (a value or nothing); a Get that ends in a decode error has run
\* the decoder, so a record whose decode throws is decoded by every Get; and
\* what Get(t, n) returns is the same at every call: no step changes it.
\* (Both hold after every step; a step that changes nothing Get reads
\* changes no result.)
C1_ReturnedDecodeOnce ==
    /\ \A t \in Tables, n \in Names :
          decodes[t][n] > 1 =>
              /\ n \in DOMAIN lazyProps[t]
              /\ Throws(ReadTypedProperty(RawRecord(t, n)))
    /\ IsGet /\ Throws(lastOp.ret) => lastOp.decoded

C1_SameResult ==
    \/ UNCHANGED <<children, templateProps, lazyProps, props, decodes>>
    \/ \A t \in Tables, n \in Names :
          GetRec(t, n, <<>>).ret' = GetRec(t, n, <<>>).ret

C1_Amended == [][C1_ReturnedDecodeOnce' /\ C1_SameResult]_vars

\* a Get answered from the cache, after the one decode of the record
C1_Witness ==
    /\ IsGet /\ ~lastOp.decoded /\ lastOp.ret.kind = "value"
    /\ decodes[Last(lastOp.path)][lastOp.name] = 1

\* C2: Get(name) on T returns what decoding the record of the nearest table
\* of T's template chain holding name gives, nullptr when no table holds it.
C2_NearestOwner ==
    IsGet => Deref(lastOp.ret) = DecodedResult(lastOp.t, lastOp.name)

\* a value found two templates up
C2_Witness ==
    IsGet /\ Len(lastOp.path) = 3 /\ lastOp.ret.kind = "value"

\* C3: a table's cache holds only names of its own lazyProps: a delegated
\* Get never writes the calling table's cache.
C3_CacheWithinRawIndex ==
    \A t \in Tables : DOMAIN props[t] \subseteq DOMAIN lazyProps[t]

\* a delegated Get has decoded and cached in the template
C3_Witness ==
    /\ IsGet /\ Len(lastOp.path) >= 2 /\ lastOp.decoded
    /\ lastOp.name \in DOMAIN props[Last(lastOp.path)]
    /\ lastOp.name \notin DOMAIN props[lastOp.t]

\* C4: GetUnparsedProperties changes no table's cache, and leaves what the
\* next Get(t, n) does (result, tables visited, decode, cache write) as it was.
C4_UnparsedFrame ==
    [][(lastOp'.op = "GetUnparsedProperties"
          /\ \E t \in Tables : GetUnparsedProperties(t)) =>
          /\ props' = props
          /\ decodes' = decodes
          /\ \A t \in Tables, n \in Names :
                GetRec(t, n, <<>>)' = GetRec(t, n, <<>>)]_vars

\* GetUnparsedProperties returned a name that the next Get still decodes
C4_Witness ==
    /\ IsUnparsed /\ lastOp.ret.kind = "map"
    /\ \E n \in DOMAIN lastOp.ret.map :
          /\ n \notin DOMAIN props[lastOp.t]
          /\ GetRec(lastOp.t, n, <<>>).decoded
          /\ GetRec(lastOp.t, n, <<>>).stored

\* C5: the mapping GetUnparsedProperties returns has as keys the names of the
\* table's own lazyProps that are not cached and decode to a value, each with
\* the decoded value of its own record.
C5_UnparsedMapping ==
    IsUnparsed /\ lastOp.ret.kind = "map" =>
        /\ DOMAIN lastOp.ret.map =
              {n \in DOMAIN lazyProps[lastOp.t] :
                  /\ n \notin DOMAIN props[lastOp.t]
                  /\ ReadTypedProperty(RawRecord(lastOp.t, n)).kind = "value"}
        /\ \A n \in DOMAIN lastOp.ret.map :
              lastOp.ret.map[n] = ReadTypedProperty(RawRecord(lastOp.t, n))

\* a mapping with a key, returned while another name of the table is cached
C5_Witness ==
    /\ IsUnparsed /\ lastOp.ret.kind = "map"
    /\ DOMAIN lastOp.ret.map # {}
    /\ DOMAIN props[lastOp.t] # {}

\* The positions of the "P" elements of a child list that carry name.
Occurrences(elems, name) ==
    {i \in 1..Len(elems) :
        elems[i].key = "P" /\ Len(elems[i].tok) >= 4 /\ elems[i].tok[1].s = name}

FirstOccurrence(elems, name) ==
    CHOOSE i \in Occurrences(elems, name) :
        \A j \in Occurrences(elems, name) : i <= j

\* C6: of several "P" records with one name the constructor indexes the
\* first, Get decodes that one, and each later one gives one diagnostic.
C6_FirstWins ==
    \A t \in constructed :
        /\ \A name \in Names :
              Occurrences(children[t], name) # {} =>
                  /\ name \in DOMAIN lazyProps[t]
                  /\ lazyProps[t][name] = FirstOccurrence(children[t], name)
                  /\ Cardinality({i \in 1..Len(warnings[t]) :
                                    /\ warnings[t][i].msg = DuplicateName
                                    /\ warnings[t][i].elem \in
                                          Occurrences(children[t], name)})
                        = Cardinality(Occurrences(children[t], name)) - 1
        /\ IsGet /\ lastOp.t = t /\ lastOp.decoded =>
              Deref(lastOp.ret) =
                  ReadTypedProperty(
                      children[t][FirstOccurrence(children[t], lastOp.name)])

\* Get has decoded a name that three records carry, the first unlike the last
C6_Witness ==
    /\ IsGet /\ lastOp.decoded
    /\ Cardinality(Occurrences(children[lastOp.t], lastOp.name)) = 3
    /\ children[lastOp.t][1] # children[lastOp.t][3]
    /\ Len(warnings[lastOp.t]) = 2

\* The decode table: a tag's least token count and the value read.
MinTokens(tag) ==
    IF tag \in {"Vector3D", "ColorRGB", "Vector", "Color", "Lcl Translation",
                "Lcl Rotation", "Lcl Scaling"} THEN 7
    ELSE IF tag = "ColorAndAlpha" THEN 8
    ELSE 5

TableValue(tag, tok) ==
    CASE tag = "KString" -> <<"String", tok[5].s>>
      [] tag \in {"bool", "Bool"} -> <<"Bool", tok[5].s # 0>>
      [] tag \in {"int", "Int", "enum", "Enum", "Integer"} -> <<"Int32", tok[5].s>>
      [] tag = "ULongLong" -> <<"UInt64", tok[5].s>>
      [] tag = "KTime" -> <<"Int64", tok[5].s>>
      [] tag \in {"double", "Number", "float", "Float", "FieldOfView",
                  "UnitScaleFactor"} -> <<"Float32", tok[5].s>>
      [] tag = "ColorAndAlpha" -> <<"Color4", tok[5].s, tok[6].s, tok[7].s, tok[8].s>>
      [] OTHER -> <<"Vector3", tok[5].s, tok[6].s, tok[7].s>>

\* C7: Decode gives nothing for fewer than 2 tokens and for a tag outside the
\* decode table, the tag's value for a tag of the table with its least token
\* count or more, and a decode error for a tag of the table with fewer.
C7_DecodeOutcomes ==
    lastOp.op = "ReadTypedProperty" =>
        LET tok == arg.tok IN
        IF Len(tok) < 2 THEN lastOp.ret = Nullptr
        ELSE IF tok[2].s \notin KnownTags THEN lastOp.ret = Nullptr
        ELSE IF Len(tok) >= MinTokens(tok[2].s)
        THEN lastOp.ret = New(TableValue(tok[2].s, tok))
        ELSE Throws(lastOp.ret)

\* a vector tag with 6 tokens has thrown
C7_Witness ==
    /\ lastOp.op = "ReadTypedProperty" /\ Throws(lastOp.ret)
    /\ Len(arg.tok) = 6

\* C8: when decoding the nearest owner's record throws, Get on the owner and
\* on every table that delegated to it ends in that error: it is neither
\* turned into nullptr nor into a look at the owner's template.
C8_ErrorPropagates ==
    IsGet /\ Throws(DecodedResult(lastOp.t, lastOp.name)) =>
        /\ lastOp.ret = DecodedResult(lastOp.t, lastOp.name)
        /\ Last(lastOp.path) = NearestOwner(lastOp.t, lastOp.name)

\* a delegated Get ended in the template's decode error
C8_Witness ==
    IsGet /\ Throws(lastOp.ret) /\ Len(lastOp.path) >= 2

\* C9: a cache entry, once there, is never removed nor changed by a later
\* Get or GetUnparsedProperties.
C9_CacheMonotonic ==
    [][\A t \in Tables : \A n \in DOMAIN props[t] :
          n \in DOMAIN props'[t] /\ props'[t][n] = props[t][n]]_vars

\* calls made on a table whose cache holds a value and a nullptr entry
C9_Witness ==
    \E t \in Tables :
        /\ \E n \in DOMAIN props[t] : props[t][n] = Nullptr
        /\ \E n \in DOMAIN props[t] : props[t][n].kind = "value"
        /\ lastOp.op \in {"Get", "GetUnparsedProperties"} /\ lastOp.t = t
        /\ IsGet => ~lastOp.decoded

\* C10: two threads in Get(name) on one table may both find name uncached
\* before either stores: then the record is decoded twice, two objects are
\* made and props[name] is assigned twice, unsynchronised.
C10_DecodedAndStoredTwice ==
    \A th1 \in Threads : \A th2 \in Threads \ {th1} :
        /\ thr[th1].pc = "refind" /\ thr[th2].pc = "refind"
        /\ thr[th1].cur = thr[th2].cur /\ thr[th1].name = thr[th2].name
        => /\ decodes[thr[th1].cur][thr[th1].name] >= 2
           /\ stores[thr[th1].cur][thr[th1].name] >= 2
           /\ raced
           /\ thr[th1].tmp.kind = "value" => thr[th1].tmp # thr[th2].tmp

\* both threads called Get on the same table and have both decoded and
\* assigned; the map holds the second object, the first is overwritten
C10_Witness ==
    /\ thr[1].pc = "refind" /\ thr[2].pc = "refind"
    /\ thr[1].t = thr[2].t /\ thr[1].cur = thr[1].t /\ thr[2].cur = thr[1].t
    /\ thr[1].tmp.kind = "value"
    /\ decodes[thr[1].t]["a"] = 2 /\ stores[thr[1].t]["a"] = 2
    /\ props[thr[1].t]["a"] = thr[2].tmp
    /\ thr[1].tmp.at[3] = 1 /\ thr[2].tmp.at[3] = 2

\* C11: a local record that decodes to nothing shadows the template: Get
\* returns nullptr at the first and at every later call and visits no table
\* but its own, whatever the template holds for the name.
C11_LocalEmptyShadows ==
    IsGet /\ lastOp.name \in DOMAIN lazyProps[lastOp.t]
          /\ ReadTypedProperty(RawRecord(lastOp.t, lastOp.name)) = Nullptr
    => /\ lastOp.ret = Nullptr
       /\ lastOp.path = <<lastOp.t>>
       /\ props[lastOp.t][lastOp.name] = Nullptr

\* a later Get answered nullptr from the local cache while the template holds
\* a record for the name that decodes to a value
C11_Witness ==
    /\ IsGet /\ ~lastOp.decoded /\ lastOp.ret = Nullptr
    /\ lastOp.name \in DOMAIN props[lastOp.t]
    /\ templateProps[lastOp.t] # NoTable
    /\ lastOp.name \in DOMAIN lazyProps[templateProps[lastOp.t]]
    /\ ReadTypedProperty(RawRecord(templateProps[lastOp.t], lastOp.name)).kind = "value"

\* C13: a name Get has stored in the table's cache is in no mapping
\* GetUnparsedProperties returns afterwards; a name that is in the mapping has
\* there the value the next Get(name) returns, and that Get caches it.
C13_UnparsedAgreesWithGet ==
    IsUnparsed /\ lastOp.ret.kind = "map" =>
        /\ \A n \in Names :
              stores[lastOp.t][n] > 0 => n \notin DOMAIN lastOp.ret.map
        /\ \A n \in DOMAIN lastOp.ret.map :
              /\ Deref(GetRec(lastOp.t, n, <<>>).ret) = lastOp.ret.map[n]
              /\ GetRec(lastOp.t, n, <<>>).stored
              /\ GetRec(lastOp.t, n, <<>>).path = <<lastOp.t>>

\* a mapping with one name, returned after Get has cached the other
C13_Witness ==
    /\ IsUnparsed /\ lastOp.ret.kind = "map"
    /\ \E n \in Names : stores[lastOp.t][n] > 0
    /\ \E n \in DOMAIN lastOp.ret.map : stores[lastOp.t][n] = 0

\* The tables of the chain from t up to table o.
RECURSIVE ChainUpTo(_, _)
ChainUpTo(t, o) ==
    IF t = o \/ templateProps[t] = NoTable THEN <<t>>
    ELSE <<t>> \o ChainUpTo(templateProps[t], o)

\* C14: Get ends, having visited each table of the chain at most once, from
\* the called table up to the first one that holds a record for the name and
\* no further (the whole chain if none does), with at most one decode, made
\* in that table.
C14_BoundedWalk ==
    [][lastOp'.op = "Get" =>
          /\ lastOp'.path = ChainUpTo(lastOp'.t, NearestOwner(lastOp'.t, lastOp'.name))
          /\ Len(lastOp'.path) <= Cardinality(Tables)
          /\ \A i \in 1..Len(lastOp'.path), j \in 1..Len(lastOp'.path) :
                lastOp'.path[i] = lastOp'.path[j] => i = j
          /\ \A t \in Tables, n \in Names :
                /\ decodes'[t][n] <= decodes[t][n] + 1
                /\ decodes'[t][n] # decodes[t][n] =>
                      /\ lastOp'.decoded
                      /\ n = lastOp'.name
                      /\ t = NearestOwner(lastOp'.t, lastOp'.name)]_vars

\* a Get on T1 that went up two templates and decoded once, in T3
C14_Witness ==
    /\ IsGet /\ lastOp.path = <<"T1", "T2", "T3">> /\ lastOp.decoded
    /\ decodes["T3"][lastOp.name] = 1
    /\ decodes["T1"][lastOp.name] = 0 /\ decodes["T2"][lastOp.name] = 0

\* The positions of the "P" children with at least four tokens, and the
\* diagnostics given for the child at position i.
LongP(elems) ==
    {i \in 1..Len(elems) : elems[i].key = "P" /\ Len(elems[i].tok) >= 4}

WarningsFor(t, i) == {k \in 1..Len(warnings[t]) : warnings[t][k].elem = i}

\* C12 as stated: lazyProps holds exactly the first tokens of the "P"
\* children with at least four tokens. A "P" child with four tokens or more
\* whose first token is the empty string is not indexed.
C12_IndexedNames ==
    \A t \in constructed :
        DOMAIN lazyProps[t] =
            {children[t][i].tok[1].s : i \in LongP(children[t])}

\* C12, amended: lazyProps holds exactly the non-empty first tokens of the
\* "P" children with at least four tokens; a child with another key, a "P"
\* child with fewer than four tokens and a "P" child with an empty first token
\* are each skipped with exactly one diagnostic, and the children after them
\* are still scanned.
C12_Amended ==
    \A t \in constructed :
        /\ DOMAIN lazyProps[t] =
              {children[t][i].tok[1].s : i \in LongP(children[t])} \ {""}
        /\ \A n \in DOMAIN lazyProps[t] :
              /\ lazyProps[t][n] \in LongP(children[t])
              /\ children[t][lazyProps[t][n]].tok[1].s = n
        /\ \A i \in 1..Len(children[t]) :
              /\ children[t][i].key # "P" =>
                    /\ Cardinality(WarningsFor(t, i)) = 1
                    /\ \A k \in WarningsFor(t, i) :
                          warnings[t][k].msg = "expected only P elements in property table"
              /\ children[t][i].key = "P"
                    /\ (Len(children[t][i].tok) < 4 \/ children[t][i].tok[1].s = "") =>
                    /\ Cardinality(WarningsFor(t, i)) = 1
                    /\ \A k \in WarningsFor(t, i) :
                          warnings[t][k].msg = "could not read property name"
                    /\ \A n \in DOMAIN lazyProps[t] : lazyProps[t][n] # i

\* a table constructed over a child of another key, a "P" child of three
\* tokens and then a "P" child that is indexed
C12_Witness ==
    /\ lastOp.op = "PropertyTable" /\ lastOp.t \in constructed
    /\ Len(children[lastOp.t]) = 3
    /\ children[lastOp.t][1].key # "P"
    /\ children[lastOp.t][2].key = "P" /\ Len(children[lastOp.t][2].tok) < 4
    /\ 3 \in LongP(children[lastOp.t])
    /\ \E n \in DOMAIN lazyProps[lastOp.t] : lazyProps[lastOp.t][n] = 3
    /\ Len(warnings[lastOp.t]) = 2

\* C15: the decode error names the record's type tag and one location, that
\* of the tag's token: as a byte offset when the token comes from binary
\* input, as a line number when it comes from text, and never the other way.
C15_ErrorLocation ==
    lastOp.op = "ReadTypedProperty" /\ Throws(lastOp.ret) =>
        /\ lastOp.ret = DeadlyImportError(arg.tok[2].s, lastOp.ret.where, arg.tok[2].loc)
        /\ lastOp.ret.tag \in KnownTags
        /\ lastOp.ret.where \in {"offset", "line"}
        /\ lastOp.ret.where = "offset" <=> arg.tok[2].bin

\* a record of binary origin has thrown, with its offset
C15_Witness ==
    /\ lastOp.op = "ReadTypedProperty" /\ Throws(lastOp.ret)
    /\ arg.tok[2].bin /\ lastOp.ret.where = "offset"
    /\ lastOp.ret.tag = "ColorAndAlpha"

\* What the call of lastOp gives when it is made once more.
C16_Retry ==
    LET g == GetRec(lastOp.t, lastOp.name, <<>>)
    IN  g.decoded /\ ~g.stored /\ g.ret = lastOp.ret /\ g.path = lastOp.path

\* C16: a Get that ends in a decode error has decoded the record, whether it
\* is the first such call or a later one, and leaves every cache as it was,
\* with no entry for the name; the same call made again decodes again and
\* ends in the same error, not in nullptr.
C16_ThrowCachesNothing ==
    [][lastOp'.op = "Get" /\ Throws(lastOp'.ret) =>
          /\ props' = props /\ stores' = stores
          /\ \A i \in 1..Len(lastOp'.path) :
                lastOp'.name \notin DOMAIN props'[lastOp'.path[i]]
          /\ lastOp'.decoded
          /\ C16_Retry']_vars

\* the second Get of a name has decoded the record again and thrown again
C16_Witness ==
    /\ IsGet /\ Throws(lastOp.ret) /\ lastOp.decoded
    /\ decodes[Last(lastOp.path)][lastOp.name] = 2
    /\ stores[Last(lastOp.path)][lastOp.name] = 0

\* The record of an uncached name of t is one the decoder throws on.
C18_UncachedThrower(t) ==
    \E n \in DOMAIN lazyProps[t] \ DOMAIN props[t] :
        Throws(ReadTypedProperty(RawRecord(t, n)))

\* C18: GetUnparsedProperties ends in a decode error, with no mapping, exactly
\* when the record of some name of lazyProps that is not in the cache has a
\* known tag with too few tokens, requested through Get before or not; a name
\* in the cache never makes it throw; the cache is left as it was.
C18_UnparsedThrows ==
    [][lastOp'.op = "GetUnparsedProperties" =>
          /\ props' = props
          /\ Throws(lastOp'.ret) <=> C18_UncachedThrower(lastOp'.t)
          /\ Throws(lastOp'.ret) => lastOp'.ret.kind # "map"
          /\ Throws(lastOp'.ret) =>
                \E n \in DOMAIN lazyProps[lastOp'.t] \ DOMAIN props[lastOp'.t] :
                    lastOp'.ret = ReadTypedProperty(RawRecord(lastOp'.t, n))]_vars

\* GetUnparsedProperties has thrown on a table no Get has decoded anything
\* of, after a name with a good record
C18_Witness ==
    /\ IsUnparsed /\ Throws(lastOp.ret)
    /\ \A n \in Names : decodes[lastOp.t][n] = 0
    /\ Cardinality(DOMAIN lazyProps[lastOp.t]) = 2
    /\ ReadTypedProperty(RawRecord(lastOp.t, "a")).kind = "value"

\* C19: Get and GetUnparsedProperties leave every table's lazyProps and
\* templateProps as the constructor made them, and the scanned elements with
\* them; of the tables' state they change the caches only.
C19_IndexAndTemplateFrozen ==
    [][lastOp'.op \in {"Get", "GetUnparsedProperties"} =>
          UNCHANGED <<lazyProps, templateProps, children, constructed, warnings>>]_vars

\* a delegated Get has stored into the template's cache, whose lazyProps
\* still holds the name
C19_Witness ==
    /\ IsGet /\ lastOp.decoded /\ Len(lastOp.path) = 3
    /\ lastOp.name \in DOMAIN props[Last(lastOp.path)]
    /\ lastOp.name \in DOMAIN lazyProps[Last(lastOp.path)]
    /\ templateProps[lastOp.t] = lastOp.path[2]

\* C17: a Get resolved by delegation stores into the cache of the template
\* that holds the record, not into the called table's; two threads in
\* Get(name) on two different tables with one template may both find name
\* uncached there before either stores: then the template's record is decoded
\* twice and the template's props[name] is assigned twice, unsynchronised.
C17_SharedTemplateRace ==
    \A th1 \in Threads : \A th2 \in Threads \ {th1} :
        /\ thr[th1].pc = "refind"
        /\ thr[th1].cur # thr[th1].t
        => /\ thr[th1].name \in DOMAIN props[thr[th1].cur]
           /\ thr[th1].name \notin DOMAIN props[thr[th1].t]
           /\ stores[thr[th1].cur][thr[th1].name] >= 1
           /\ stores[thr[th1].t][thr[th1].name] = 0
           /\ /\ thr[th2].pc = "refind"
              /\ thr[th2].t # thr[th1].t
              /\ thr[th2].cur = thr[th1].cur /\ thr[th2].name = thr[th1].name
              => /\ decodes[thr[th1].cur][thr[th1].name] >= 2
                 /\ stores[thr[th1].cur][thr[th1].name] >= 2
                 /\ raced
                 /\ thr[th1].tmp.kind = "value" => thr[th1].tmp # thr[th2].tmp

\* one thread called Get on T1, the other on T2, both tables have T3 as their
\* template: both have decoded T3's record and assigned T3's props[name]
C17_Witness ==
    /\ templateProps["T1"] = "T3" /\ templateProps["T2"] = "T3"
    /\ thr[1].pc = "refind" /\ thr[2].pc = "refind"
    /\ thr[1].t = "T1" /\ thr[2].t = "T2"
    /\ thr[1].cur = "T3" /\ thr[2].cur = "T3"
    /\ thr[1].tmp.kind = "value" /\ thr[2].tmp.kind = "value"
    /\ thr[1].tmp # thr[2].tmp
    /\ decodes["T3"]["a"] = 2 /\ stores["T3"]["a"] = 2
    /\ "a" \notin DOMAIN props["T1"] /\ "a" \notin DOMAIN props["T2"]

====
